---- MODULE Spec2Model ----
(***************************************************************************)
(* A model of py-wink: wink/auth.py (need_to_reauth, reauth, _auth) and    *)
(* wink/api.py (class Wink: __init__, _http and its wrappers,              *)
(* populate_devices and the three index readers).                          *)
(*                                                                         *)
(* One Wink instance is shared by the threads of Threads.  A thread runs   *)
(* one method at a time; pc[t] is its position in the method.  A step of   *)
(* the model is what a thread does between two points where another        *)
(* thread can run (a network round trip, or any two statements that read   *)
(* or write the instance).                                                 *)
(*                                                                         *)
(* Time is counted in ticks, Res ticks to the second: utcnow() has a finer *)
(* resolution than the "%Y-%m-%d %H:%M:%S" string that `expires` is kept   *)
(* in.  A serialized time is represented by its number of whole seconds.   *)
(***************************************************************************)
EXTENDS Integers, Sequences, FiniteSets, TLC

VARIABLES
    now,              \* datetime.datetime.utcnow(), in ticks
    ticks,            \* how often the clock has advanced
    auth,             \* self.auth: the held credentials
    auth_object,      \* whether self.auth_object is not None
    stored,           \* what the store last returned from load() or got in save()
    issued,           \* the grants the auth endpoint has answered with tokens
    grants,           \* per refresh token, the grants posted with it
    pc,               \* per thread, its position in the method it runs
    call,             \* per thread, the call it runs
    loc,              \* per thread, the local state of that call
    result,           \* per thread, how its last call ended
    calls,            \* the calls started
    attrs,            \* the names in the instance's __dict__
    _device_list,     \* self._device_list, when "_device_list" is in attrs
    _devices_by_type, \* self._devices_by_type, when "_devices_by_type" is in attrs
    obs,              \* what the last reader of the index got
    log               \* the populate_devices calls that have ended, in that order

vars == <<now, ticks, auth, auth_object, stored, issued, grants,
          pc, call, loc, result, calls,
          attrs, _device_list, _devices_by_type, obs, log>>

clockVars == <<now, ticks>>
authVars == <<auth, stored, issued, grants>>
indexVars == <<attrs, _device_list, _devices_by_type>>

(***************************************************************************)
(* Bounds of the model.                                                    *)
(***************************************************************************)
Res == 2            \* clock ticks per second
MaxTicks == 1       \* clock advances in a behaviour
MaxCalls == 2       \* method calls started in a behaviour
MaxGrants == 2      \* refresh grants answered in a behaviour

Threads == {"t1", "t2"}

(***************************************************************************)
(* Python values.                                                          *)
(***************************************************************************)
\* dict.update(g) on a copy of f
Update(f, g) ==
    [k \in (DOMAIN f) \cup (DOMAIN g) |-> IF k \in DOMAIN g THEN g[k] ELSE f[k]]

EmptyDict == [k \in {} |-> 0]

\* str(n) of the status codes the servers of the model answer with
Str(n) ==
    CASE n = 200 -> "200"
      [] n = 201 -> "201"
      [] n = 204 -> "204"
      [] n = 401 -> "401"
      [] n = 403 -> "403"

(***************************************************************************)
(* auth.py                                                                 *)
(***************************************************************************)
default_expires_in == 900

default_tolerance == 10

\* strftime("%Y-%m-%d %H:%M:%S"): the fraction of a second is dropped
_datetime_serialize(dt) == dt \div Res

\* strptime of that string: a time on a whole second
_datetime_deserialize(s) == s * Res

\* datetime.timedelta(0, seconds)
timedelta(seconds) == seconds * Res

need_to_reauth_strict(kwargs, utcnow) ==
    IF "expires" \notin DOMAIN kwargs
    THEN TRUE
    ELSE LET tolerance == IF "tolerance" \in DOMAIN kwargs
                          THEN kwargs["tolerance"] ELSE default_tolerance
             expires == _datetime_deserialize(kwargs["expires"])
         IN  utcnow + timedelta(tolerance) > expires

need_to_reauth_always(kwargs, utcnow) == TRUE

need_to_reauth(kwargs, utcnow) ==
    IF "expires" \notin DOMAIN kwargs
    THEN TRUE
    ELSE LET tolerance == IF "tolerance" \in DOMAIN kwargs
                          THEN kwargs["tolerance"] ELSE default_tolerance
             expires == _datetime_deserialize(kwargs["expires"])
         IN  utcnow + timedelta(tolerance) >= expires

\* The body of the grant that reauth builds (auth.py 71-74, 80-84)
reauth_body(kwargs) ==
    [grant_type |-> "refresh_token",
     refresh_token |-> kwargs["refresh_token"],
     client_id |-> kwargs["client_id"],
     client_secret |-> kwargs["client_secret"]]

_auth_access_token_only(kwargs, data, utcnow) ==
    Update(kwargs, [access_token |-> data["access_token"]])

\* What _auth returns for a 200/201 answer whose "data" is `data`
\* (auth.py 103-126); kwargs is the mapping reauth was called with.
_auth(kwargs, data, utcnow) ==
    LET expires_in == IF "expires_in" \in DOMAIN data
                      THEN data["expires_in"] ELSE default_expires_in
        expires == utcnow + timedelta(expires_in)
    IN  Update(kwargs, [access_token |-> data["access_token"],
                        refresh_token |-> data["refresh_token"],
                        expires |-> _datetime_serialize(expires)])

\* del d[k]
Del(f, k) == [x \in (DOMAIN f) \ {k} |-> f[x]]

\* auth.py 44-63: what auth(**kwargs) returns for a 200/201 answer.  kwargs
\* holds "password" (line 51 reads it), _auth copies kwargs, line 61 deletes
\* the key from the copy.
auth_password(kwargs, data, utcnow) == Del(_auth(kwargs, data, utcnow), "password")

\* auth.py 66-76: what reauth(**kwargs) returns for a 200/201 answer
reauth(kwargs, data, utcnow) == _auth(kwargs, data, utcnow)

auth_ok_any(status) == TRUE

\* auth.py 98
auth_ok(status) == ~(status # 201 /\ status # 200)

(***************************************************************************)
(* The auth endpoint and the credential store (collaborators).             *)
(***************************************************************************)
AuthStatuses == {200, 201, 401}

\* "data" of a successful grant answer: fresh tokens, expires_in optional
GrantData(n) ==
    { [access_token |-> n, refresh_token |-> n] } \cup
    { [access_token |-> n, refresh_token |-> n, expires_in |-> e] : e \in {5} }

StaticFields ==
    [client_id |-> "id", client_secret |-> "secret", base_url |-> "https://wink"]

\* The credentials a store's load() (or the caller, with save_auth=False)
\* hands to the constructor: tokens of an earlier grant, with or without
\* `expires`, with or without a `tolerance` of their own.
InitialCredentials ==
    LET base == Update(StaticFields, [access_token |-> 0, refresh_token |-> 0])
    IN  { base } \cup
        { Update(base, [expires |-> e]) : e \in {10, 11} } \cup
        { Update(base, [expires |-> 40, tolerance |-> 30]) }

(***************************************************************************)
(* api.py: requests                                                        *)
(***************************************************************************)
UserAgent == "wink/99.99.99 (iPhone; iOS 7.1.2; Scale/2.0)"

Bearer(token) == <<"Bearer", token>>

\* Wink._headers (api.py 51-55)
_headers(a) ==
    [k \in {"Authorization", "User-Agent"} |->
        IF k = "Authorization" THEN Bearer(a["access_token"]) ELSE <<UserAgent, 0>>]

content_headers == [k \in {"Content-Type"} |-> <<"application/json", 0>>]

\* api.py 70-74: the headers of the request that goes out
all_headers(a, c) ==
    LET h == Update(_headers(a), c.headers)
    IN  IF c.body THEN Update(h, content_headers) ELSE h

\* api.py 114-115: a str becomes a one-element set, a list stays as it is
expected_set(e) == { e[i] : i \in 1..Len(e) }

status_ok_any(status, expected) == TRUE

status_ok_or_204(status, expected) ==
    Str(status) \in expected_set(expected) \cup {"204"}

\* api.py 117
status_ok(status, expected) == Str(status) \in expected_set(expected)


\* The calls a thread can make.  `expected` is the str or the list handed
\* to _http, as the sequence of its codes; `data_only` says the wrapper
\* takes .get("data") of what _http returns.
Ops ==
    { [op |-> "_http", method |-> "GET", path |-> "/users/me", body |-> FALSE,
       headers |-> h, expected |-> <<"200">>, data_only |-> FALSE]
         : h \in {EmptyDict, [k \in {"Authorization"} |-> <<"Basic", 0>>]} } \cup
    { [op |-> "update_profile", method |-> "PUT", path |-> "/users/me", body |-> TRUE,
       headers |-> EmptyDict, expected |-> <<"200", "201", "202", "204">>,
       data_only |-> TRUE],
      [op |-> "populate_devices", method |-> "GET", path |-> "/users/me/wink_devices",
       body |-> FALSE, headers |-> EmptyDict, expected |-> <<"200">>,
       data_only |-> TRUE] }

NoCall ==
    [op |-> "", method |-> "", path |-> "", body |-> FALSE, headers |-> EmptyDict,
     expected |-> <<>>, data_only |-> FALSE]

(***************************************************************************)
(* api.py: the device index                                                *)
(*                                                                         *)
(* A descriptor is the sequence of its keys in the order `for k in         *)
(* device_info` visits them.  A key is its text split before a final       *)
(* "_id": k.endswith("_id") is suffix = "_id", and k[:-3] is then stem.    *)
(***************************************************************************)
Key(stem, suffix) == [stem |-> stem, suffix |-> suffix]

\* hasattr(devices, name): the attributes of the `devices` package
devices == {"light_bulb", "thermostat"}

\* The attributes every Wink instance gets from its class (api.py 27-228)
ClassAttrs ==
    {"content_headers", "_url", "_headers", "_http", "_get", "_put", "_post",
     "_delete", "get_profile", "update_profile", "update_profile_email",
     "get_devices", "get_geofences", "get_services", "create_service", "get_icons",
     "get_channels", "get_inbound_channels", "get_outbound_channels",
     "populate_devices", "_get_device_func", "_get_device_list_func",
     "device_list", "device_types", "devices_by_type"}

\* "%ss" % device_type
Plural(tag) ==
    CASE tag = "light_bulb" -> "light_bulbs"
      [] tag = "thermostat" -> "thermostats"

\* The "data" lists the server of the model answers GET /users/me/wink_devices
\* with, each a list of descriptors
DeviceResponses ==
    <<  \* 1: a light bulb, an unknown kind, a thermostat behind a hub_id, a light bulb
        << <<Key("light_bulb", "_id"), Key("name", "")>>,
           <<Key("unknown", "_id")>>,
           <<Key("hub", "_id"), Key("thermostat", "_id"), Key("name", "")>>,
           <<Key("name", ""), Key("light_bulb", "_id")>> >>,
        \* 2: an unknown kind, and a descriptor with the keys of two registered types
        << <<Key("unknown", "_id")>>,
           <<Key("thermostat", "_id"), Key("light_bulb", "_id")>> >> >>

NoType == "None"

RECURSIVE classify_from(_, _)
\* api.py 189-193, from the j-th key on
classify_from(device_info, j) ==
    IF j > Len(device_info) THEN NoType
    ELSE LET k == device_info[j]
         IN  IF k.suffix = "_id" /\ k.stem \in devices
             THEN k.stem
             ELSE classify_from(device_info, j + 1)

\* api.py 189-193: the device type of a descriptor, NoType for None
classify(device_info) == classify_from(device_info, 1)

\* api.py 198-199: device_cls(self, device_info), for the i-th descriptor of
\* response r
Device(r, i) == [cls |-> classify(DeviceResponses[r][i]), info |-> <<r, i>>]

\* hasattr(self, name)
hasattr(names, name) == name \in names \cup ClassAttrs

(***************************************************************************)
(* The resource endpoints (collaborator): a status code and a body.  A     *)
(* body is empty, text that is not JSON, or a JSON object with or without  *)
(* "data" and "errors".  The "data" of /users/me/wink_devices is one of    *)
(* DeviceResponses, that of any other path is opaque (0).                  *)
(***************************************************************************)
Statuses == {200, 204, 403}

Data(path) ==
    IF path = "/users/me/wink_devices" THEN 1..Len(DeviceResponses) ELSE {0}

Contents(path) ==
    { [kind |-> "empty", has_data |-> FALSE, data |-> 0, errors |-> <<>>],
      [kind |-> "text", has_data |-> FALSE, data |-> 0, errors |-> <<>>],
      [kind |-> "json", has_data |-> FALSE, data |-> 0, errors |-> <<"bad">>] } \cup
    { [kind |-> "json", has_data |-> TRUE, data |-> d, errors |-> <<>>]
        : d \in Data(path) }

\* the {} that _http returns for an empty body (api.py 129)
EmptyJson == [kind |-> "json", has_data |-> FALSE, data |-> 0, errors |-> <<>>]

NoMessage == [expected |-> {}, actual |-> "", method |-> "", path |-> ""]

\* How a call ended: returned or the exception raised, the values the
\* exception's message is formatted from, what was returned, and, for the
\* record, the status code of the resource response ("" when none came).
NoResult ==
    [kind |-> "none", what |-> "", message |-> NoMessage, value |-> EmptyJson,
     status |-> ""]

Returned(v) == [NoResult EXCEPT !.kind = "return", !.value = v]

Raised(kind, what) == [NoResult EXCEPT !.kind = kind, !.what = what]

\* api.py 118-125
StatusError(expected, status, c) ==
    [NoResult EXCEPT !.kind = "RuntimeError", !.what = "expected code",
                     !.message = [expected |-> expected_set(expected),
                                  actual |-> Str(status),
                                  method |-> c.method, path |-> c.path]]

\* auth.py 98-101
AuthError(status) ==
    [NoResult EXCEPT !.kind = "RuntimeError", !.what = "expected HTTP 200 or 201",
                     !.message = [NoMessage EXCEPT !.actual = Str(status)]]

\* What a call of _http ends with, given the answer (api.py 97-129).  A
\* RuntimeError raised for "errors" at line 107 is caught by the bare
\* except of line 108, so the parsed content goes on to the status check.
_http(c, status, content) ==
    IF ~status_ok(status, c.expected)
    THEN StatusError(c.expected, status, c)
    ELSE IF content.kind = "empty" THEN Returned(EmptyJson) ELSE Returned(content)

\* _get/_put/_post: .get("data") of what _http returned (api.py 131-139);
\* the value kept is the content the data is taken from
_get(c, r) ==
    IF r.kind # "return" \/ ~c.data_only THEN r
    ELSE IF r.value.kind = "text" THEN Raised("AttributeError", "get")
    ELSE r

(***************************************************************************)
(* The state of a call in progress.                                        *)
(***************************************************************************)
NoIndex == [flat |-> <<>>, by_type |-> EmptyDict]

\* stale: what need_to_reauth answered; seen: the credentials it was called
\* with; kwargs: those reauth was called with; refreshed: what reauth
\* returned; trace: the events of the call so far; sent: the headers of the
\* resource request; status: str(response.status_code); devices_info and i:
\* the fetched list and the position in it; old: the index when the call
\* began; alone: no other populate_devices has been in progress during it
NoLoc ==
    [stale |-> FALSE, seen |-> EmptyDict, kwargs |-> EmptyDict,
     refreshed |-> EmptyDict, trace |-> <<>>, sent |-> EmptyDict, status |-> "",
     i |-> 0, devices_info |-> 0, old |-> NoIndex, alone |-> TRUE]

\* What the last reader got: the op and its argument, whether it raised
\* AttributeError, the list or the types it returned, and, when a
\* populate_devices of another thread was in progress, the index at the start
\* of that call and the response it has fetched (0 before the answer).
NoObs ==
    [op |-> "", tag |-> "", raised |-> FALSE, list |-> <<>>, types |-> {},
     running |-> FALSE, old |-> NoIndex, new |-> 0]

\* Wink.__init__ (api.py 31-44): with save_auth the credentials come from
\* auth_object.load(); without it the argument is the credentials and no
\* store is kept.  __init__ assigns debug, auth and auth_object and nothing
\* else: "_device_list" and "_devices_by_type" are not in attrs.
Init ==
    /\ now = 0 /\ ticks = 0
    /\ auth \in InitialCredentials
    /\ auth_object \in BOOLEAN
    /\ stored = auth
    /\ issued = 0
    /\ grants = [r \in 0..(MaxGrants + 1) |-> 0]
    /\ pc = [t \in Threads |-> "idle"]
    /\ call = [t \in Threads |-> NoCall]
    /\ loc = [t \in Threads |-> NoLoc]
    /\ result = [t \in Threads |-> NoResult]
    /\ calls = 0
    /\ attrs = {"debug", "auth", "auth_object"}
    /\ _device_list = <<>>
    /\ _devices_by_type = EmptyDict
    /\ obs = NoObs
    /\ log = <<>>

\* datetime.datetime.utcnow() moves on.  The clock is read at api.py 59
\* (need_to_reauth) and at auth.py 113 (_auth) only, so its advance is taken
\* just before one of those steps.
Tick(d) ==
    /\ ticks < MaxTicks
    /\ \E t \in Threads : pc[t] \in {"check", "reauth_wait"}
    /\ now' = now + d /\ ticks' = ticks + 1
    /\ UNCHANGED <<authVars, auth_object, pc, call, loc, result, calls, indexVars, obs,
                   log>>

\* The threads inside populate_devices
Populating == { p \in Threads : call[p].op = "populate_devices" /\ pc[p] # "idle" }

\* A thread calls a method of the instance
Call(t, c) ==
    /\ pc[t] = "idle" /\ calls < MaxCalls
    /\ calls' = calls + 1
    /\ call' = [call EXCEPT ![t] = c]
    /\ LET others == IF c.op = "populate_devices" THEN Populating \ {t} ELSE {}
       IN  loc' = [p \in Threads |->
                     IF p = t
                     THEN [NoLoc EXCEPT !.old = [flat |-> _device_list,
                                                 by_type |-> _devices_by_type],
                                        !.alone = (others = {})]
                     ELSE IF p \in others THEN [loc[p] EXCEPT !.alone = FALSE]
                     ELSE loc[p]]
    /\ result' = [result EXCEPT ![t] = NoResult]
    /\ pc' = [pc EXCEPT ![t] = "check"]
    /\ UNCHANGED <<clockVars, authVars, auth_object, indexVars, obs, log>>

Finish_resend(t, r) ==
    IF r.what = "expected code"
    THEN /\ pc' = [pc EXCEPT ![t] = "send"]
         /\ UNCHANGED <<result, call, loc, log>>
    ELSE /\ result' = [result EXCEPT ![t] = r]
         /\ pc' = [pc EXCEPT ![t] = "idle"]
         /\ call' = [call EXCEPT ![t] = NoCall]
         /\ loc' = [loc EXCEPT ![t] = NoLoc]
         /\ log' = IF call[t].op = "populate_devices"
                   THEN Append(log, [devices_info |-> loc[t].devices_info,
                                     ended |-> r.kind, alone |-> loc[t].alone])
                   ELSE log

\* The call of thread t ends with r: its frame is gone
Finish(t, r) ==
    /\ result' = [result EXCEPT ![t] = r]
    /\ pc' = [pc EXCEPT ![t] = "idle"]
    /\ call' = [call EXCEPT ![t] = NoCall]
    /\ loc' = [loc EXCEPT ![t] = NoLoc]
    /\ log' = IF call[t].op = "populate_devices"
              THEN Append(log, [devices_info |-> loc[t].devices_info,
                                ended |-> r.kind, alone |-> loc[t].alone])
              ELSE log

\* api.py 59: need_to_reauth(**self.auth)
HttpCheck(t) ==
    /\ pc[t] = "check"
    /\ LET s == need_to_reauth(auth, now)
       IN  /\ loc' = [loc EXCEPT ![t].stale = s, ![t].seen = auth]
           /\ pc' = [pc EXCEPT ![t] = IF s THEN "reauth" ELSE "send"]
    /\ UNCHANGED <<clockVars, authVars, auth_object, call, result, calls, indexVars, obs,
                   log>>

\* api.py 64, auth.py 66-86: reauth(**self.auth) posts the refresh grant
ReauthSend(t) ==
    /\ pc[t] = "reauth"
    /\ issued < MaxGrants
    /\ LET body == reauth_body(auth)
       IN  /\ grants' = [grants EXCEPT ![body.refresh_token] = @ + 1]
           /\ loc' = [loc EXCEPT ![t].kwargs = auth,
                                 ![t].trace = Append(@, "grant")]
    /\ pc' = [pc EXCEPT ![t] = "reauth_wait"]
    /\ UNCHANGED <<clockVars, auth, stored, issued, auth_object, call, result, calls,
                   indexVars, obs, log>>

\* auth.py 98-126 and the assignment of api.py 64
ReauthRecv(t, status) ==
    /\ pc[t] = "reauth_wait"
    /\ IF ~auth_ok(status)
       THEN /\ Finish(t, AuthError(status))
            /\ UNCHANGED <<auth, issued>>
       ELSE \E data \in GrantData(issued + 1) :
            /\ auth' = reauth(loc[t].kwargs, data, now)
            /\ issued' = issued + 1
            /\ loc' = [loc EXCEPT ![t].refreshed = auth',
                                  ![t].trace = Append(@, "replace")]
            /\ pc' = [pc EXCEPT ![t] = "save"]
            /\ UNCHANGED <<result, call, log>>
    /\ UNCHANGED <<clockVars, stored, grants, auth_object, calls, indexVars, obs>>

Save_skipped(t) ==
    /\ pc[t] = "save"
    /\ pc' = [pc EXCEPT ![t] = "send"]
    /\ UNCHANGED <<clockVars, authVars, auth_object, call, loc, result, calls,
                   indexVars, obs, log>>

\* api.py 66-67
Save(t) ==
    /\ pc[t] = "save"
    /\ IF auth_object
       THEN /\ stored' = auth
            /\ loc' = [loc EXCEPT ![t].trace = Append(@, "save")]
       ELSE UNCHANGED <<stored, loc>>
    /\ pc' = [pc EXCEPT ![t] = "send"]
    /\ UNCHANGED <<clockVars, auth, issued, grants, auth_object, call, result, calls,
                   indexVars, obs, log>>

\* api.py 69-95: the headers are built from self.auth and the request goes out
Send(t) ==
    /\ pc[t] = "send"
    /\ loc' = [loc EXCEPT ![t].sent = all_headers(auth, call[t]),
                          ![t].trace = Append(@, "request")]
    /\ pc' = [pc EXCEPT ![t] = "wait"]
    /\ UNCHANGED <<clockVars, authVars, auth_object, call, result, calls, indexVars, obs,
                   log>>

\* api.py 97-129 and the wrapper's .get("data"); populate_devices goes on
\* to line 182 with the list it got (0 for None)
Recv(t, status, content) ==
    /\ pc[t] = "wait"
    /\ LET r == [_get(call[t], _http(call[t], status, content))
                   EXCEPT !.status = Str(status)]
       IN  IF call[t].op = "populate_devices" /\ r.kind = "return"
           THEN /\ loc' = [loc EXCEPT ![t].devices_info = r.value.data,
                                      ![t].status = Str(status)]
                /\ pc' = [pc EXCEPT ![t] = "clean"]
                /\ UNCHANGED <<result, call, log>>
           ELSE Finish(t, r)
    /\ UNCHANGED <<clockVars, authVars, auth_object, calls, indexVars, obs>>

\* api.py 88-95: requests.get/put/post/delete raises instead of answering
\* (no connection, a timeout); nothing in _http catches it
RecvFail(t) ==
    /\ pc[t] = "wait"
    /\ Finish(t, Raised("ConnectionError", "requests"))
    /\ UNCHANGED <<clockVars, authVars, auth_object, calls, indexVars, obs>>

\* api.py 182: del self._device_list[:]
PopClean(t) ==
    /\ pc[t] = "clean"
    /\ IF "_device_list" \notin attrs
       THEN /\ Finish(t, [Raised("AttributeError", "_device_list")
                            EXCEPT !.status = loc[t].status])
            /\ UNCHANGED _device_list
       ELSE /\ _device_list' = <<>>
            /\ pc' = [pc EXCEPT ![t] = "clean_attrs"]
            /\ UNCHANGED <<result, call, loc, log>>
    /\ UNCHANGED <<clockVars, authVars, auth_object, calls, attrs,
                   _devices_by_type, obs>>

\* api.py 183-186: the accessors of every indexed type are deleted and the
\* mapping is cleared.  delattr raises AttributeError for an accessor that is
\* not there; those of the types visited before it are gone by then.
PopCleanAttrs(t) ==
    /\ pc[t] = "clean_attrs"
    /\ LET types == DOMAIN _devices_by_type
           missing == { d \in types : d \notin attrs \/ Plural(d) \notin attrs }
       IN  IF "_devices_by_type" \notin attrs
           THEN /\ Finish(t, [Raised("AttributeError", "_devices_by_type")
                                EXCEPT !.status = loc[t].status])
                /\ UNCHANGED <<attrs, _devices_by_type>>
           ELSE IF missing = {}
           THEN /\ attrs' = attrs \ (types \cup { Plural(d) : d \in types })
                /\ _devices_by_type' = EmptyDict
                /\ loc' = [loc EXCEPT ![t].i = 1]
                /\ pc' = [pc EXCEPT ![t] = "loop"]
                /\ UNCHANGED <<result, call, log>>
           ELSE \E before \in SUBSET (types \ missing) :
                /\ attrs' = attrs \ (before \cup { Plural(d) : d \in before })
                /\ Finish(t, [Raised("AttributeError", "delattr")
                                EXCEPT !.status = loc[t].status])
                /\ UNCHANGED _devices_by_type
    /\ UNCHANGED <<clockVars, authVars, auth_object, calls, _device_list, obs>>

\* api.py 188-202: the next descriptor is classified; one of no registered
\* type is skipped, the device of any other is appended to the flat list.
\* Iterating None (a response without "data") raises TypeError.
PopLoop(t) ==
    /\ pc[t] = "loop"
    /\ LET r == loc[t].devices_info
           i == loc[t].i
       IN  IF r = 0
           THEN /\ Finish(t, [Raised("TypeError", "devices_info")
                                EXCEPT !.status = loc[t].status])
                /\ UNCHANGED _device_list
           ELSE IF i > Len(DeviceResponses[r])
           THEN /\ Finish(t, [Returned(EmptyJson) EXCEPT !.status = loc[t].status])
                /\ UNCHANGED _device_list
           ELSE IF classify(DeviceResponses[r][i]) = NoType
           THEN /\ loc' = [loc EXCEPT ![t].i = i + 1]
                /\ UNCHANGED <<_device_list, pc, result, call, log>>
           ELSE /\ _device_list' = Append(_device_list, Device(r, i))
                /\ pc' = [pc EXCEPT ![t] = "attr"]
                /\ UNCHANGED <<loc, result, call, log>>
    /\ UNCHANGED <<clockVars, authVars, auth_object, calls, attrs,
                   _devices_by_type, obs>>

\* api.py 204-211: the accessors and the per-type list of a type seen for
\* the first time
PopAttr(t) ==
    /\ pc[t] = "attr"
    /\ LET device_type == Device(loc[t].devices_info, loc[t].i).cls
       IN  IF ~hasattr(attrs, device_type)
           THEN /\ attrs' = attrs \cup {device_type, Plural(device_type)}
                /\ _devices_by_type' =
                       Update(_devices_by_type, [k \in {device_type} |-> <<>>])
           ELSE UNCHANGED <<attrs, _devices_by_type>>
    /\ pc' = [pc EXCEPT ![t] = "append"]
    /\ UNCHANGED <<clockVars, authVars, auth_object, call, loc, result, calls,
                   _device_list, obs, log>>

\* api.py 213
PopAppend(t) ==
    /\ pc[t] = "append"
    /\ LET device_obj == Device(loc[t].devices_info, loc[t].i)
       IN  IF device_obj.cls \notin DOMAIN _devices_by_type
           THEN /\ Finish(t, [Raised("KeyError", device_obj.cls)
                                EXCEPT !.status = loc[t].status])
                /\ UNCHANGED _devices_by_type
           ELSE /\ _devices_by_type' =
                       [_devices_by_type EXCEPT ![device_obj.cls] = Append(@, device_obj)]
                /\ loc' = [loc EXCEPT ![t].i = @ + 1]
                /\ pc' = [pc EXCEPT ![t] = "loop"]
                /\ UNCHANGED <<result, call, log>>
    /\ UNCHANGED <<clockVars, authVars, auth_object, calls, attrs,
                   _device_list, obs>>

\* api.py 221-228: device_list(), device_types() and devices_by_type(typ),
\* each a copy of what the instance holds at that moment
Read(t, op, typ) ==
    /\ pc[t] = "idle" /\ calls < MaxCalls
    /\ calls' = calls + 1
    /\ LET others == { p \in Threads \ {t} :
                         call[p].op = "populate_devices" /\ pc[p] # "idle" }
           name == IF op = "device_list" THEN "_device_list" ELSE "_devices_by_type"
           seen == [NoObs EXCEPT
                      !.op = op, !.tag = typ,
                      !.raised = name \notin attrs,
                      !.list = IF name \notin attrs THEN <<>>
                               ELSE IF op = "device_list" THEN _device_list
                               ELSE IF op = "devices_by_type"
                                       /\ typ \in DOMAIN _devices_by_type
                                    THEN _devices_by_type[typ]
                               ELSE <<>>,
                      !.types = IF op = "device_types" /\ name \in attrs
                                THEN DOMAIN _devices_by_type ELSE {}]
       IN  obs' = IF others = {} THEN seen
                  ELSE LET p == CHOOSE p \in others : TRUE
                       IN  [seen EXCEPT !.running = TRUE, !.old = loc[p].old,
                                        !.new = loc[p].devices_info]
    /\ UNCHANGED <<clockVars, authVars, auth_object, pc, call, loc, result, indexVars,
                   log>>

ReadOps ==
    { <<"device_list", "">>, <<"device_types", "">> } \cup
    { <<"devices_by_type", typ>> : typ \in devices }

\* Every step of the instance as Wink.__init__ leaves it
Next ==
    \/ \E d \in {1, timedelta(default_tolerance)} : Tick(d)
    \/ \E t \in Threads, c \in Ops : Call(t, c)
    \/ \E t \in Threads : HttpCheck(t)
    \/ \E t \in Threads : ReauthSend(t)
    \/ \E t \in Threads, status \in AuthStatuses : ReauthRecv(t, status)
    \/ \E t \in Threads : Save(t)
    \/ \E t \in Threads : Send(t)
    \/ \E t \in Threads, status \in Statuses :
          \E content \in Contents(call[t].path) : Recv(t, status, content)
    \/ \E t \in Threads : RecvFail(t)
    \/ \E t \in Threads : PopClean(t)
    \/ \E t \in Threads, r \in ReadOps : Read(t, r[1], r[2])

Spec == Init /\ [][Next]_vars

\* The instance once something other than __init__ has given it the two
\* attributes populate_devices and the readers use, as an empty list and an
\* empty dict: the only state from which api.py 183-213 run.  The client has
\* a store and credentials that are not stale yet (they become stale when
\* the clock advances by the tolerance).
InitIndexed ==
    /\ now = 0 /\ ticks = 0
    /\ auth \in { c \in InitialCredentials :
                     "expires" \in DOMAIN c /\ ~need_to_reauth(c, 0) }
    /\ auth_object = TRUE
    /\ stored = auth
    /\ issued = 0
    /\ grants = [r \in 0..(MaxGrants + 1) |-> 0]
    /\ pc = [t \in Threads |-> "idle"]
    /\ call = [t \in Threads |-> NoCall]
    /\ loc = [t \in Threads |-> NoLoc]
    /\ result = [t \in Threads |-> NoResult]
    /\ calls = 0
    /\ attrs = {"debug", "auth", "auth_object", "_device_list", "_devices_by_type"}
    /\ _device_list = <<>>
    /\ _devices_by_type = EmptyDict
    /\ obs = NoObs
    /\ log = <<>>

\* The calls that use the index
IndexOps == { c \in Ops : c.op = "populate_devices" }

\* Every step of populate_devices and of the readers on that instance
NextIndexed ==
    \/ \E d \in {1, timedelta(default_tolerance)} : Tick(d)
    \/ \E t \in Threads, c \in IndexOps : Call(t, c)
    \/ \E t \in Threads : HttpCheck(t)
    \/ \E t \in Threads : ReauthSend(t)
    \/ \E t \in Threads, status \in AuthStatuses : ReauthRecv(t, status)
    \/ \E t \in Threads : Save(t)
    \/ \E t \in Threads : Send(t)
    \/ \E t \in Threads, status \in Statuses :
          \E content \in Contents(call[t].path) : Recv(t, status, content)
    \/ \E t \in Threads : RecvFail(t)
    \/ \E t \in Threads : PopClean(t)
    \/ \E t \in Threads, r \in ReadOps : Read(t, r[1], r[2])
    \/ \E t \in Threads : PopCleanAttrs(t)
    \/ \E t \in Threads : PopLoop(t)
    \/ \E t \in Threads : PopAttr(t)
    \/ \E t \in Threads : PopAppend(t)

SpecIndexed == InitIndexed /\ [][NextIndexed]_vars

(***************************************************************************)
(* auth.py on its own: an application that holds a credentials value and   *)
(* passes it through auth or reauth as their keyword arguments, keeping    *)
(* what the function returns.  Here the variable `auth` is that value and  *)
(* a call is one step.                                                     *)
(***************************************************************************)
\* The values handed to auth and reauth: a login configuration, the same
\* with the tokens of an earlier grant, and credentials without a password
GrantKwargs ==
    LET login == Update(StaticFields, [username |-> "user", password |-> "pw"])
        tokens == [access_token |-> 0, refresh_token |-> 0, expires |-> 10]
    IN  { login, Update(login, tokens), Update(StaticFields, tokens) }

\* "data" of a successful grant answer, with any expires_in that
\* int(data["expires_in"]) accepts
GrantDataAny(n) ==
    { [access_token |-> n, refresh_token |-> n] } \cup
    { [access_token |-> n, refresh_token |-> n, expires_in |-> e]
        : e \in {-5, 0, 1, 5} }

\* The times of the model at which a grant is made: on a whole second and
\* between two
GrantTimes == {0, 1, Res, Res + 1}

InitGrant ==
    /\ now \in GrantTimes /\ ticks = 0
    /\ auth \in GrantKwargs
    /\ auth_object = FALSE
    /\ stored = auth
    /\ issued = 0
    /\ grants = [r \in 0..(MaxGrants + 1) |-> 0]
    /\ pc = [t \in Threads |-> "idle"]
    /\ call = [t \in Threads |-> NoCall]
    /\ loc = [t \in Threads |-> NoLoc]
    /\ result = [t \in Threads |-> NoResult]
    /\ calls = 0
    /\ attrs = {}
    /\ _device_list = <<>>
    /\ _devices_by_type = EmptyDict
    /\ obs = NoObs
    /\ log = <<>>

\* auth.py 44-63 with _auth (79-126): auth(**auth)
Authenticate(t, status, data) ==
    /\ pc[t] = "idle" /\ calls < MaxCalls
    /\ calls' = calls + 1
    /\ IF "password" \notin DOMAIN auth
       THEN /\ result' = [result EXCEPT ![t] = Raised("KeyError", "password")]
            /\ UNCHANGED <<auth, issued>>
       ELSE IF ~auth_ok(status)
       THEN /\ result' = [result EXCEPT ![t] = AuthError(status)]
            /\ UNCHANGED <<auth, issued>>
       ELSE /\ auth' = auth_password(auth, data, now)
            /\ issued' = issued + 1
            /\ result' = [result EXCEPT ![t] = Returned(EmptyJson)]
    /\ UNCHANGED <<clockVars, auth_object, stored, grants, pc, call, loc, indexVars,
                   obs, log>>

\* auth.py 66-76 with _auth (79-126): reauth(**auth)
Refresh(t, status, data) ==
    /\ pc[t] = "idle" /\ calls < MaxCalls
    /\ calls' = calls + 1
    /\ IF "refresh_token" \notin DOMAIN auth
       THEN /\ result' = [result EXCEPT ![t] = Raised("KeyError", "refresh_token")]
            /\ UNCHANGED <<auth, issued, grants>>
       ELSE /\ grants' = [grants EXCEPT ![reauth_body(auth).refresh_token] = @ + 1]
            /\ IF ~auth_ok(status)
               THEN /\ result' = [result EXCEPT ![t] = AuthError(status)]
                    /\ UNCHANGED <<auth, issued>>
               ELSE /\ auth' = reauth(auth, data, now)
                    /\ issued' = issued + 1
                    /\ result' = [result EXCEPT ![t] = Returned(EmptyJson)]
    /\ UNCHANGED <<clockVars, auth_object, stored, pc, call, loc, indexVars, obs, log>>

NextGrant ==
    \/ \E t \in Threads, status \in AuthStatuses, data \in GrantDataAny(issued + 1) :
          Authenticate(t, status, data)
    \/ \E t \in Threads, status \in AuthStatuses, data \in GrantDataAny(issued + 1) :
          Refresh(t, status, data)

SpecGrant == InitGrant /\ [][NextGrant]_vars

(***************************************************************************)
(* What the claims speak of.                                               *)
(***************************************************************************)
Range(seq) == { seq[i] : i \in 1..Len(seq) }

\* The credentials are stale at time `utcnow` (in ticks) in the words of the
\* specification: no `expires`, or now + tolerance >= expires, in seconds
\* scaled to ticks
StaleAt(c, utcnow) ==
    \/ "expires" \notin DOMAIN c
    \/ utcnow + Res * (IF "tolerance" \in DOMAIN c THEN c["tolerance"] ELSE 10)
          >= Res * c["expires"]

\* The first key of a descriptor, in its key order, that ends with "_id" and
\* whose prefix is a registered type; NoType when there is none
FirstMatch(device_info) ==
    LET matching == { j \in 1..Len(device_info) :
                        /\ device_info[j].suffix = "_id"
                        /\ device_info[j].stem \in devices }
    IN  IF matching = {} THEN NoType
        ELSE device_info[CHOOSE j \in matching : \A k \in matching : j <= k].stem

IsClassified(d) == d.cls # NoType

\* The devices of response r in the order of the response, those of no
\* registered type left out
ExpectedFlat(r) ==
    SelectSeq([i \in 1..Len(DeviceResponses[r]) |->
                  [cls |-> FirstMatch(DeviceResponses[r][i]), info |-> <<r, i>>]],
              IsClassified)

ExpectedByType(r, tag) ==
    LET OfTag(d) == d.cls = tag IN SelectSeq(ExpectedFlat(r), OfTag)

ExpectedTypes(r) == { d.cls : d \in Range(ExpectedFlat(r)) }

\* device_list(), device_types() and devices_by_type(tag) do not raise
IndexPresent == {"_device_list", "_devices_by_type"} \subseteq attrs

\* devices_by_type(tag) (api.py 227-228)
DevicesByType(tag) ==
    IF tag \in DOMAIN _devices_by_type THEN _devices_by_type[tag] ELSE <<>>

\* The index is the one built from response r alone
IndexIs(r) ==
    /\ IndexPresent
    /\ _device_list = ExpectedFlat(r)
    /\ DOMAIN _devices_by_type = ExpectedTypes(r)
    /\ \A tag \in devices : DevicesByType(tag) = ExpectedByType(r, tag)

\* The flat list and the per-type lists agree
IndexAgrees ==
    /\ IndexPresent
    /\ \A i \in 1..Len(_device_list) :
          Cardinality({ tag \in DOMAIN _devices_by_type :
                          _device_list[i] \in Range(_devices_by_type[tag]) }) = 1
    /\ \A tag \in DOMAIN _devices_by_type :
          LET OfTag(d) == d.cls = tag
          IN  /\ _devices_by_type[tag] # <<>>
              /\ _devices_by_type[tag] = SelectSeq(_device_list, OfTag)

(***************************************************************************)
(* The claims.                                                             *)
(***************************************************************************)

\* C1: when two calls in progress on the same client have each found the
\* same held credentials stale, at most one of them posts a refresh grant,
\* and once both have sent their resource request the two requests carry
\* the same Authorization header.
C1_OneRefreshForConcurrentCalls ==
    \A t1, t2 \in Threads :
        (/\ t1 # t2
         /\ loc[t1].stale /\ loc[t2].stale
         /\ loc[t1].seen = loc[t2].seen)
        => /\ ~("grant" \in Range(loc[t1].trace) /\ "grant" \in Range(loc[t2].trace))
           /\ (pc[t1] = "wait" /\ pc[t2] = "wait")
                 => loc[t1].sent["Authorization"] = loc[t2].sent["Authorization"]

\* C2: the step that evaluates need_to_reauth on the held credentials answers
\* true exactly when they have no `expires` or now + tolerance >= expires
\* (tolerance 10 unless the credentials carry one); so it answers false
\* whenever `expires` is more than tolerance seconds after now.
C2_NeedToReauth ==
    [][\A t \in Threads :
          (pc[t] = "check" /\ pc'[t] # "check")
          => /\ loc'[t].seen = auth
             /\ loc'[t].stale = StaleAt(auth, now)]_vars

\* C2 witness: a call has found credentials stale whose `expires` was still
\* ahead of the clock (stale by the tolerance alone), the tolerance being the
\* credentials' own
C2_StaleByOwnTolerance ==
    \E t \in Threads :
        /\ pc[t] = "reauth"
        /\ loc[t].stale
        /\ "tolerance" \in DOMAIN loc[t].seen
        /\ Res * loc[t].seen["expires"] > now

\* C3: in a call that found the credentials stale, the refreshed value is
\* what is saved (when there is a store), and the resource request goes out
\* after grant, replacement and save, in that order, with the refreshed
\* access token as its Authorization header.
C3_RefreshBeforeRequest ==
    [][\A t \in Threads :
          /\ (pc[t] = "save" /\ pc'[t] = "send" /\ auth_object)
                => stored' = loc[t].refreshed
          /\ (pc[t] = "send" /\ pc'[t] = "wait" /\ loc[t].stale)
                => /\ loc'[t].trace =
                         IF auth_object
                         THEN <<"grant", "replace", "save", "request">>
                         ELSE <<"grant", "replace", "request">>
                   /\ loc'[t].sent["Authorization"] =
                         Bearer(loc[t].refreshed["access_token"])]_vars

\* C4: what a reader gets while a populate_devices of another thread is in
\* progress is the complete index of before that call or the complete index
\* of the response that call fetched.
C4_ReaderSeesCompleteIndex ==
    obs.running =>
        /\ ~obs.raised
        /\ obs.op = "device_list" =>
              \/ obs.list = obs.old.flat
              \/ obs.new # 0 /\ obs.list = ExpectedFlat(obs.new)
        /\ obs.op = "devices_by_type" =>
              \/ obs.list = IF obs.tag \in DOMAIN obs.old.by_type
                            THEN obs.old.by_type[obs.tag] ELSE <<>>
              \/ obs.new # 0 /\ obs.list = ExpectedByType(obs.new, obs.tag)
        /\ obs.op = "device_types" =>
              \/ obs.types = DOMAIN obs.old.by_type
              \/ obs.new # 0 /\ obs.types = ExpectedTypes(obs.new)

\* C5: once two populate_devices calls that overlapped and fetched different
\* responses have both ended, device_list() is the list built from one of
\* the two responses.
C5_NoMixtureAfterConcurrentPopulates ==
    \A i, j \in 1..Len(log) :
        (/\ i < j /\ Populating = {}
         /\ ~log[i].alone /\ ~log[j].alone
         /\ log[i].devices_info # 0 /\ log[j].devices_info # 0
         /\ log[i].devices_info # log[j].devices_info)
        => /\ IndexPresent
           /\ \/ _device_list = ExpectedFlat(log[i].devices_info)
              \/ _device_list = ExpectedFlat(log[j].devices_info)

\* C6: after two populate_devices calls, one after the other, that fetched
\* different responses, the flat list, the per-type lists and the types are
\* those of the second response alone.
C6_SecondResponseOnly ==
    (/\ Len(log) >= 2 /\ Populating = {}
     /\ log[Len(log)].alone /\ log[Len(log) - 1].alone
     /\ log[Len(log)].devices_info # 0 /\ log[Len(log) - 1].devices_info # 0
     /\ log[Len(log)].devices_info # log[Len(log) - 1].devices_info)
    => IndexIs(log[Len(log)].devices_info)

\* C7: after every populate_devices call, however it ended, the flat list
\* and the per-type lists agree: each device of the flat list is in exactly
\* one per-type list, each per-type list is the flat list's devices of that
\* type in the same order, and no indexed type has an empty list.
C7_IndexAgreesAfterPopulate ==
    (Len(log) >= 1 /\ Populating = {}) => IndexAgrees

\* C8: the first populate_devices on a new client, when the server answers
\* with a list of descriptors, returns and leaves in devices_by_type(t) one
\* device per descriptor classified as t, the empty list for any other t.
C8_FirstPopulateCompletes ==
    (Len(log) = 1 /\ log[1].devices_info # 0)
    => /\ log[1].ended = "return"
       /\ IndexPresent
       /\ \A tag \in devices :
             DevicesByType(tag) = ExpectedByType(log[1].devices_info, tag)

\* C9: a populate_devices that ran alone and fetched a list of descriptors
\* ends without an error, and device_list() then holds, in the order of the
\* response, one device per descriptor that has a key ending in "_id" with
\* a registered prefix, typed by the first such key; the other descriptors
\* add nothing.
C9_FirstMatchingKeyWins ==
    (/\ Len(log) >= 1 /\ Populating = {}
     /\ log[Len(log)].alone /\ log[Len(log)].devices_info # 0)
    => /\ log[Len(log)].ended = "return"
       /\ IndexPresent
       /\ _device_list = ExpectedFlat(log[Len(log)].devices_info)

\* C10: a call gets past the status check (it returns, or the wrapper goes on
\* with what was returned) only when the status code is in the expected set,
\* and for a status code outside it the call raises the error whose message
\* holds the expected set, the status code, the method and the path.  (A
\* step that ends the wait with ConnectionError is one without a response.)
C10_StatusChecked ==
    [][\A t \in Threads :
          (pc[t] = "wait" /\ pc'[t] # "wait" /\ result'[t].kind # "ConnectionError")
          => LET expected == Range(call[t].expected)
                 actual == IF pc'[t] = "clean" THEN loc'[t].status
                           ELSE result'[t].status
             IN  IF actual \in expected
                 THEN pc'[t] = "clean" \/ result'[t].kind # "RuntimeError"
                 ELSE /\ pc'[t] = "idle"
                      /\ result'[t].kind = "RuntimeError"
                      /\ result'[t].what = "expected code"
                      /\ result'[t].message =
                            [expected |-> expected, actual |-> actual,
                             method |-> call[t].method, path |-> call[t].path]]_vars

\* C10 witness: a GET that expected "200" has ended with the status error
\* for a 403
C10_Got403 ==
    \E t \in Threads :
        /\ result[t].kind = "RuntimeError"
        /\ result[t].what = "expected code"
        /\ result[t].message =
              [expected |-> {"200"}, actual |-> "403", method |-> "GET",
               path |-> "/users/me"]

\* C11: a call whose response body parsed as JSON with a non-empty "errors"
\* does not return: it ends with an error (the one joining the messages),
\* whatever the status code, and the caller never gets that payload back.
C11_ErrorsAreRaised ==
    \A t \in Threads :
        result[t].kind = "return" => result[t].value.errors = <<>>

\* C12: the Authorization header of the request that goes out is "Bearer"
\* with the access token of the credentials held at that moment, whatever
\* headers the caller passed.
C12_AuthorizationIsBearer ==
    [][\A t \in Threads :
          (pc[t] = "send" /\ pc'[t] = "wait")
          => loc'[t].sent["Authorization"] = Bearer(auth["access_token"])]_vars

\* C13: once auth or reauth has returned credentials (a grant succeeded),
\* the value returned has no "password" key, whatever value the function
\* was given.
C13_NoPasswordAfterGrant ==
    issued > 0 => "password" \notin DOMAIN auth

\* C14: the credentials returned by a successful auth or reauth have as
\* `expires` the time of the grant plus the answer's expires_in seconds (900
\* when the answer has none), as a time in whole seconds, and that time is
\* later than the time of the grant.
C14_ExpiresAfterGrant ==
    [][\A t \in Threads, status \in AuthStatuses, data \in GrantDataAny(issued + 1) :
          (/\ Authenticate(t, status, data) \/ Refresh(t, status, data)
           /\ issued' = issued + 1)
          => LET expires_in == IF "expires_in" \in DOMAIN data
                               THEN data["expires_in"] ELSE 900
             IN  /\ auth'["expires"] = (now + Res * expires_in) \div Res
                 /\ Res * auth'["expires"] > now]_vars

\* C15: when the answer to the refresh grant of a call has a status other
\* than 200 and 201, the call ends there with the auth error that carries
\* the status code: the grant was posted once and is not posted again, no
\* resource request has gone out, the held credentials are not replaced and
\* nothing is saved.
C15_RejectedRefreshFails ==
    [][\A t \in Threads, status \in AuthStatuses :
          (status \notin {200, 201} /\ ReauthRecv(t, status))
          => /\ pc'[t] = "idle"
             /\ result'[t].kind = "RuntimeError"
             /\ result'[t].what = "expected HTTP 200 or 201"
             /\ result'[t].message.actual = Str(status)
             /\ loc[t].trace = <<"grant">>
             /\ auth' = auth /\ stored' = stored /\ grants' = grants]_vars

\* C15 witness: a call has ended with the auth error for a 401
C15_GotAuthError ==
    \E t \in Threads :
        /\ pc[t] = "idle"
        /\ result[t].kind = "RuntimeError"
        /\ result[t].what = "expected HTTP 200 or 201"
        /\ result[t].message.actual = "401"

\* How often event e is in the trace of a call
Count(e, trace) == Cardinality({ i \in 1..Len(trace) : trace[i] = e })

\* C16: a call posts at most one refresh grant and sends at most one
\* resource request; when the request fails (a status code outside the
\* expected set, a transport failure, or any other error after the answer)
\* the call ends with that error, the request having gone out once.
C16_NoRetry ==
    [][\A t \in Threads :
          /\ Count("grant", loc'[t].trace) <= 1
          /\ Count("request", loc'[t].trace) <= 1
          /\ (pc[t] = "wait" /\ pc'[t] # "clean" /\ pc'[t] # "wait")
                => /\ pc'[t] = "idle"
                   /\ Count("request", loc[t].trace) = 1
                   /\ grants' = grants]_vars

\* C16 witness: the only call so far refreshed the credentials, sent its
\* request and ended with the status error
C16_FailedAfterRefresh ==
    \E t \in Threads :
        /\ calls = 1 /\ issued = 1
        /\ pc[t] = "idle"
        /\ result[t].kind = "RuntimeError"
        /\ result[t].what = "expected code"

\* The credentials of a grant made at time `at` from the mapping `old` and
\* the answer `data`: the three fields of the grant, every other field of
\* `old` as it was
WholeGrant(old, data, at) ==
    [k \in (DOMAIN old) \cup {"access_token", "refresh_token", "expires"} |->
        CASE k = "access_token" -> data["access_token"]
          [] k = "refresh_token" -> data["refresh_token"]
          [] k = "expires" ->
                (at + Res * (IF "expires_in" \in DOMAIN data
                             THEN data["expires_in"] ELSE 900)) \div Res
          [] OTHER -> old[k]]

\* C17: the held credentials change only by the one assignment that ends a
\* refresh, and the value then installed is the whole result of that grant:
\* access token, refresh token and expires of the same answer, the mapping
\* reauth was given being left as it was.
C17_ReplacedWhole ==
    [][auth' # auth
       => \E t \in Threads :
             /\ pc[t] = "reauth_wait" /\ pc'[t] = "save"
             /\ loc'[t].kwargs = loc[t].kwargs
             /\ \E data \in GrantData(issued') :
                   auth' = WholeGrant(loc[t].kwargs, data, now)]_vars

\* C17 witness: a refresh has replaced credentials that had an `expires`
\* by the value of a grant
C17_Replaced ==
    \E t \in Threads :
        /\ pc[t] = "save"
        /\ "expires" \in DOMAIN loc[t].kwargs
        /\ auth = loc[t].refreshed
        /\ auth["access_token"] # loc[t].kwargs["access_token"]

\* C19: every step of a call made with credentials that are not stale (its
\* check, with `expires` more than tolerance seconds after now, and all that
\* follows, however the request ends) posts no refresh grant, saves nothing
\* and leaves the held credentials as they are.
C19_FreshCallLeavesCredentials ==
    [][\A t \in Threads :
          (/\ pc[t] # "idle" /\ pc'[t] # pc[t]
           /\ IF pc[t] = "check" THEN ~StaleAt(auth, now) ELSE ~loc[t].stale)
          => /\ pc'[t] \notin {"reauth", "reauth_wait", "save"}
             /\ Range(loc[t].trace) \subseteq {"request"}
             /\ auth' = auth /\ stored' = stored
             /\ grants' = grants /\ issued' = issued]_vars

\* C19 witness: a call that found credentials with an `expires` not stale
\* has ended after its request was answered with a status code outside the
\* expected set
C19_FreshCallFailed ==
    \E t \in Threads :
        /\ calls = 1 /\ issued = 0
        /\ "expires" \in DOMAIN auth
        /\ pc[t] = "idle"
        /\ result[t].kind = "RuntimeError"
        /\ result[t].what = "expected code"

FetchFailed(r, c) ==
    \/ r.what = "expected HTTP 200 or 201"
    \/ r.kind = "ConnectionError"
    \/ r.status # "" /\ r.status \notin expected_set(c.expected)

\* C18: a populate_devices whose fetch of the device list failed, and during
\* which no other populate_devices ran, ends with an error, and the flat
\* list, the per-type lists and with them the device types are then what
\* they were when the call began.
C18_FailedFetchKeepsIndex ==
    [][\A t \in Threads :
          (/\ call[t].op = "populate_devices"
           /\ pc[t] # "idle" /\ pc'[t] = "idle"
           /\ loc[t].alone
           /\ FetchFailed(result'[t], call[t]))
          => /\ result'[t].kind \notin {"none", "return"}
             /\ [flat |-> _device_list', by_type |-> _devices_by_type'] = loc[t].old]_vars

\* C18 witness: after a populate_devices that built an index with devices
\* in it, a second one has ended with the error of its failed fetch
C18_FailedAfterPopulated ==
    /\ \A t \in Threads : pc[t] = "idle"
    /\ Len(log) = 2
    /\ log[1].ended = "return" /\ log[1].devices_info # 0
    /\ log[2].ended \in {"RuntimeError", "ConnectionError"} /\ log[2].devices_info = 0
    /\ _device_list # <<>>
    /\ _device_list = ExpectedFlat(log[1].devices_info)

====
